---- MODULE Spec2Model ----
(***************************************************************************)
(* Model of app_publish.py: the fuzzy span locator render_full_text and    *)
(* the annotation loop (pending filter, record pointer, save handler).     *)
(* Text is a sequence of one-character strings; offsets into Python        *)
(* strings are 0-based, positions into sequences are 1-based.              *)
(***************************************************************************)
EXTENDS Integers, Sequences, FiniteSets, TLC

VARIABLES full, chunk, result, pc, df, ptr, screen, autosave, shown

vars == <<full, chunk, result, pc, df, ptr, screen, autosave, shown>>

locVars == <<full, chunk, result, pc>>

loopVars == <<df, ptr, screen, autosave, shown>>

(***************************************************************************)
(* Bounds of the model.                                                    *)
(***************************************************************************)
MaxFull == 3

MaxChunk == 3

\* Rows of the uploaded spreadsheet, and rows brought up for annotation in
\* one session.
MaxRows == 3

MaxShown == 5

\* Characters the documents of the model are written with: a letter in both
\* cases, two kinds of whitespace, and a punctuation character that
\* html.escape rewrites.
FullAlphabet == {"a", "A", " ", "\n", "<"}

\* Characters the chunks are written with: a letter, whitespace, a punctuation
\* character that html.escape rewrites and one that it leaves alone (a
\* metacharacter of the pattern syntax).
ChunkAlphabet == {"a", " ", "<", "."}

\* All texts over alphabet of length at most n.
Texts(alphabet, n) == UNION {[1..k -> alphabet] : k \in 0..n}

(***************************************************************************)
(* Character classes of Python's str and re.                               *)
(***************************************************************************)
UpperCase == <<"A","B","C","D","E","F","G","H","I","J","K","L","M","N","O","P","Q","R","S","T","U","V","W","X","Y","Z">>

LowerCase == <<"a","b","c","d","e","f","g","h","i","j","k","l","m","n","o","p","q","r","s","t","u","v","w","x","y","z">>

Digits == {"0","1","2","3","4","5","6","7","8","9"}

\* \w : alphanumeric characters and the underscore.
WordChars == {UpperCase[i] : i \in 1..26} \cup {LowerCase[i] : i \in 1..26} \cup Digits \cup {"_"}

IsWord(c) == c \in WordChars

\* Characters str.strip() removes.
Whitespace == {" ", "\n", "\t", "\r"}

\* Case folding of re.IGNORECASE.
ToLower == [c \in {UpperCase[i] : i \in 1..26} |-> LowerCase[CHOOSE i \in 1..26 : UpperCase[i] = c]]

Lower(c) == IF c \in DOMAIN ToLower THEN ToLower[c] ELSE c

(***************************************************************************)
(* String helpers.                                                         *)
(***************************************************************************)
\* s[lo:hi] with 0-based half-open offsets.
Slice(s, lo, hi) == SubSeq(s, lo + 1, hi)

RECURSIVE ConcatFrom(_, _)
ConcatFrom(ss, i) == IF i > Len(ss) THEN <<>> ELSE ss[i] \o ConcatFrom(ss, i + 1)

Concat(ss) == ConcatFrom(ss, 1)

\* str.replace(c, r) for a one-character c.
RECURSIVE replace(_, _, _)
replace(s, c, r) == IF \A i \in 1..Len(s) : s[i] # c THEN s ELSE LET i == CHOOSE x \in 1..Len(s) : s[x] = c /\ \A y \in 1..(x - 1) : s[y] # c IN SubSeq(s, 1, i - 1) \o r \o replace(SubSeq(s, i + 1, Len(s)), c, r)

\* html.escape(s, quote=True): & first, then < > " '.
html_escape(s) == replace(replace(replace(replace(replace(s, "&", <<"&","a","m","p",";">>), "<", <<"&","l","t",";">>), ">", <<"&","g","t",";">>), "\"", <<"&","q","u","o","t",";">>), "'", <<"&","#","x","2","7",";">>)

\* str.strip()
RECURSIVE lstrip(_)
lstrip(s) == IF s # <<>> /\ Head(s) \in Whitespace THEN lstrip(Tail(s)) ELSE s

RECURSIVE rstrip(_)
rstrip(s) == IF s # <<>> /\ s[Len(s)] \in Whitespace THEN rstrip(SubSeq(s, 1, Len(s) - 1)) ELSE s

strip(s) == rstrip(lstrip(s))

\* re.findall(r'\w+', s): the maximal runs of word characters, in order.
RECURSIVE findall_words(_, _, _)
findall_words(s, i, cur) == IF i > Len(s) THEN (IF cur = <<>> THEN <<>> ELSE <<cur>>) ELSE IF IsWord(s[i]) THEN findall_words(s, i + 1, Append(cur, s[i])) ELSE (IF cur = <<>> THEN <<>> ELSE <<cur>>) \o findall_words(s, i + 1, <<>>)

re_findall_words(s) == findall_words(s, 1, <<>>)

(***************************************************************************)
(* Pattern construction.                                                   *)
(***************************************************************************)
\* Characters re.escape prefixes with a backslash.
RegexSpecial == {"(", ")", "[", "]", "{", "}", "?", "*", "+", "-", "|", "^", "$", "\\", ".", "&", "~", "#", " ", "\t", "\n", "\r"}

re_escape(tok) == Concat([i \in 1..Len(tok) |-> IF tok[i] \in RegexSpecial THEN <<"\\", tok[i]>> ELSE <<tok[i]>>])

\* Variant: any characters between two tokens (r'.+').
Separator_any == <<".", "+">>

\* The separator r'\W+' between tokens.
Separator == <<"\\", "W", "+">>

\* sep.join(parts)
RECURSIVE join(_, _)
join(sep, parts) == IF parts = <<>> THEN <<>> ELSE IF Len(parts) = 1 THEN parts[1] ELSE parts[1] \o sep \o join(sep, Tail(parts))

\* r'\W+'.join(map(re.escape, chunk_words))
make_pattern(chunk_words) == join(Separator, [i \in 1..Len(chunk_words) |-> re_escape(chunk_words[i])])

(***************************************************************************)
(* The pattern matcher: the part of re the patterns above can use.         *)
(* A compiled pattern is a sequence of atoms; CompileError when the        *)
(* pattern text is not a valid pattern.                                    *)
(***************************************************************************)
Compiled(atoms) == [ok |-> TRUE, atoms |-> atoms]

CompileError == [ok |-> FALSE, atoms |-> <<>>]

Atom(cls, ch, plus) == [cls |-> cls, ch |-> ch, plus |-> plus]

RECURSIVE parse(_, _, _)
parse(p, i, acc) == IF i > Len(p) THEN Compiled(acc) ELSE IF p[i] = "\\" THEN (IF i = Len(p) THEN CompileError ELSE parse(p, i + 2, Append(acc, IF p[i + 1] = "W" THEN Atom("nonword", "", FALSE) ELSE Atom("lit", p[i + 1], FALSE)))) ELSE IF p[i] = "+" THEN (IF acc = <<>> \/ acc[Len(acc)].plus THEN CompileError ELSE parse(p, i + 1, [acc EXCEPT ![Len(acc)].plus = TRUE])) ELSE IF p[i] = "." THEN parse(p, i + 1, Append(acc, Atom("any", "", FALSE))) ELSE parse(p, i + 1, Append(acc, Atom("lit", p[i], FALSE)))

re_compile(p) == parse(p, 1, <<>>)

\* Variant: letter case is significant (IGNORECASE left out).
CharMatches_cs(atom, c) == IF atom.cls = "nonword" THEN ~IsWord(c) ELSE IF atom.cls = "any" THEN TRUE ELSE atom.ch = c

\* One character against one atom, under IGNORECASE | DOTALL.
CharMatches(atom, c) == IF atom.cls = "nonword" THEN ~IsWord(c) ELSE IF atom.cls = "any" THEN TRUE ELSE Lower(atom.ch) = Lower(c)

\* Length of the run of characters matching atom from position i.
RECURSIVE RunLen(_, _, _)
RunLen(atom, s, i) == IF i <= Len(s) /\ CharMatches(atom, s[i]) THEN 1 + RunLen(atom, s, i + 1) ELSE 0

\* Backtracking match of atoms[k..] at position i: the position after the
\* match, or 0 when there is none.  A repeated atom is greedy.
RECURSIVE MatchFrom(_, _, _, _)
RECURSIVE TryLen(_, _, _, _, _)
MatchFrom(atoms, k, s, i) == IF k > Len(atoms) THEN i ELSE IF atoms[k].plus THEN TryLen(atoms, k, s, i, RunLen(atoms[k], s, i)) ELSE IF i <= Len(s) /\ CharMatches(atoms[k], s[i]) THEN MatchFrom(atoms, k + 1, s, i + 1) ELSE 0

TryLen(atoms, k, s, i, n) == IF n < 1 THEN 0 ELSE LET r == MatchFrom(atoms, k + 1, s, i + n) IN IF r # 0 THEN r ELSE TryLen(atoms, k, s, i, n - 1)

\* The value of a failed search.
None == <<>>

\* Variant: the rightmost match instead of the leftmost.
re_search_last(atoms, s) == LET starts == {i \in 1..(Len(s) + 1) : MatchFrom(atoms, 1, s, i) # 0} IN IF starts = {} THEN <<>> ELSE LET i == CHOOSE x \in starts : \A y \in starts : y <= x IN <<i - 1, MatchFrom(atoms, 1, s, i) - 1>>

\* re.search(pattern, s, flags=re.IGNORECASE | re.DOTALL) for a compiled
\* pattern: the span (0-based, half-open) of the leftmost match, or None.
re_search(atoms, s) == LET starts == {i \in 1..(Len(s) + 1) : MatchFrom(atoms, 1, s, i) # 0} IN IF starts = {} THEN None ELSE LET i == CHOOSE x \in starts : \A y \in starts : x <= y IN <<i - 1, MatchFrom(atoms, 1, s, i) - 1>>

(***************************************************************************)
(* render_full_text                                                        *)
(***************************************************************************)
MarkOpen == <<"<","m","a","r","k"," ","i","d","=","'","c","h","u","n","k","-","h","i","g","h","l","i","g","h","t","'"," ","s","t","y","l","e","=","'","b","a","c","k","g","r","o","u","n","d","-","c","o","l","o","r",":","#","F","F","D","D","0","0",";","'",">">>

MarkClose == <<"<","/","m","a","r","k",">">>

LineBreak == <<"<","b","r",">">>

\* .replace("\n", "<br>")
nl2br(s) == replace(s, "\n", LineBreak)

\* Variant: the text after the span taken from end + 1.
highlight_offbyone(escaped_full, start, end) == Slice(escaped_full, 0, start) \o MarkOpen \o Slice(escaped_full, start, end) \o MarkClose \o Slice(escaped_full, end + 1, Len(escaped_full))

\* escaped_full[:start] + "<mark ...>" + escaped_full[start:end] + "</mark>" + escaped_full[end:]
highlight(escaped_full, start, end) == Slice(escaped_full, 0, start) \o MarkOpen \o Slice(escaped_full, start, end) \o MarkClose \o Slice(escaped_full, end, Len(escaped_full))

\* What the function call ends in: a returned text, or an exception.
Returned(outcome, text) == [status |-> outcome, text |-> text]

Raised == [status |-> "error", text |-> <<>>]

\* `if match:` - a match object is always true, None is false.
Truthy(match) == match # None

\* Variant: match.span() taken without the `if match:` test, which raises
\* AttributeError on None.
render_full_text_unguarded(f, c) == LET escaped_full == html_escape(f) escaped_chunk == html_escape(strip(c)) chunk_words == re_findall_words(escaped_chunk) pattern == make_pattern(chunk_words) compiled == re_compile(pattern) IN IF ~compiled.ok THEN Raised ELSE LET match == re_search(compiled.atoms, escaped_full) IN IF match = None THEN Raised ELSE Returned("match", nl2br(highlight(escaped_full, match[1], match[2])))


render_full_text(f, c) == LET escaped_full == html_escape(f) escaped_chunk == html_escape(strip(c)) chunk_words == re_findall_words(escaped_chunk) pattern == make_pattern(chunk_words) compiled == re_compile(pattern) IN IF ~compiled.ok THEN Raised ELSE LET match == re_search(compiled.atoms, escaped_full) IN IF Truthy(match) THEN Returned("match", nl2br(highlight(escaped_full, match[1], match[2]))) ELSE Returned("nomatch", nl2br(escaped_full))

(***************************************************************************)
(* The locator as a state machine: the inputs are drawn by Init, Render    *)
(* applies the function.                                                   *)
(***************************************************************************)
NoResult == [status |-> "none", text |-> <<>>]

LoopIdle == df = <<>> /\ ptr = 0 /\ screen = "upload" /\ autosave = "none" /\ shown = <<>>

Init == /\ full \in Texts(FullAlphabet, MaxFull)
        /\ chunk \in Texts(ChunkAlphabet, MaxChunk)
        /\ result = NoResult
        /\ pc = "start"
        /\ LoopIdle

Render == /\ pc = "start"
          /\ result' = render_full_text(full, chunk)
          /\ pc' = "done"
          /\ UNCHANGED <<full, chunk>>
          /\ UNCHANGED loopVars

Next == Render

Spec == Init /\ [][Next]_vars

(***************************************************************************)
(* The annotation loop: one session on one uploaded spreadsheet.           *)
(* df is the sequence of rows, a row's idx its position (pandas numbers    *)
(* them from 0, the model from 1); ptr is st.session_state["ptr"].         *)
(***************************************************************************)
\* The labels of the radio, written without their accents.
LABEL_CHOICES == {"Oui", "Non", "Non, faits ou pretentions des parties uniquement", "Non, application d'un regime special", "Je ne sais pas", "A revoir"}

\* An empty spreadsheet cell, as pandas reads it.
NaN == "NaN"

\* Spreadsheets a user can upload: with or without the decision_id column,
\* the implicit and revoir columns present or not, cells empty or filled.
FileRow == [decision_id : {"id"}, implicit : {NaN, "Oui"}, revoir : {NaN, "Oui"}]

Files == [has_decision_id : BOOLEAN, columns : SUBSET {"implicit", "revoir"}, rows : UNION {[1..n -> FileRow] : n \in 0..MaxRows}]

\* .fillna("")
fillna(v) == IF v = NaN THEN "" ELSE v

\* pd.read_excel followed by the creation of missing columns and fillna.
read_excel(file) == [i \in 1..Len(file.rows) |-> [decision_id |-> i, implicit |-> IF "implicit" \in file.columns THEN fillna(file.rows[i].implicit) ELSE "", revoir |-> IF "revoir" \in file.columns THEN fillna(file.rows[i].revoir) ELSE ""]]

\* mask = (df["implicit"] == "") | (df["revoir"] == "Oui")
mask(d, i) == d[i].implicit = "" \/ d[i].revoir = "Oui"

Pending(d) == {i \in 1..Len(d) : mask(d, i)}

\* df_todo = df[mask]: the idx of the pending rows, in spreadsheet order.
df_todo(d) == LET keep(i) == mask(d, i) IN SelectSeq([i \in 1..Len(d) |-> i], keep)

\* One run of the script over the session state, from the filter to the
\* choice of the current row: the screen it ends on and the ptr it leaves.
run_script(d, p) == IF df_todo(d) = <<>> THEN [screen |-> "finished", ptr |-> p] ELSE [screen |-> "annotate", ptr |-> IF p >= Len(df_todo(d)) THEN 0 ELSE p]

\* row = df_todo.iloc[ptr]; idx = row.name
CurrentIdx == df_todo(df)[ptr + 1]

\* Variant: the chosen label is written into implicit whatever it is.
save_df_nobranch(d, idx, reponse) == [d EXCEPT ![idx].implicit = reponse, ![idx].revoir = IF reponse = "A revoir" THEN "Oui" ELSE ""]

\* The cells the save handler writes.
save_df(d, idx, reponse) == IF reponse = "A revoir" THEN [d EXCEPT ![idx].revoir = "Oui"] ELSE [d EXCEPT ![idx].implicit = reponse, ![idx].revoir = ""]

\* Variant: ptr advanced after every save.
save_ptr_always(p, reponse) == p + 1

\* The pointer the save handler leaves.
save_ptr(p, reponse) == IF reponse = "A revoir" THEN p + 1 ELSE p

InitLoop == /\ full = <<>> /\ chunk = <<>> /\ result = NoResult /\ pc = "idle"
            /\ LoopIdle

\* A file is uploaded: the session is initialised and the script runs on.
Upload(file) == /\ screen = "upload"
                /\ IF ~file.has_decision_id
                   THEN screen' = "error" /\ UNCHANGED <<df, ptr, shown>>
                   ELSE LET d == read_excel(file) r == run_script(d, 0) IN
                        /\ df' = d
                        /\ ptr' = r.ptr
                        /\ screen' = r.screen
                        /\ shown' = IF r.screen = "annotate" THEN <<df_todo(d)[r.ptr + 1]>> ELSE <<>>
                /\ UNCHANGED autosave
                /\ UNCHANGED locVars

\* "Enregistrer et passer au suivant" with the radio on reponse: the cells
\* are written, the autosave is attempted, and the script is run again.
\* autosave tells whether the autosave file holds the current df ("current"),
\* an earlier one ("stale", the last write failed) or does not exist.
Save(reponse) == /\ screen = "annotate"
                 /\ Len(shown) < MaxShown
                 /\ LET d == save_df(df, CurrentIdx, reponse) r == run_script(d, save_ptr(ptr, reponse)) IN
                    /\ df' = d
                    /\ autosave' \in {"current", IF autosave = "none" THEN "none" ELSE "stale"}
                    /\ ptr' = r.ptr
                    /\ screen' = r.screen
                    /\ shown' = IF r.screen = "annotate" THEN Append(shown, df_todo(d)[r.ptr + 1]) ELSE shown
                 /\ UNCHANGED locVars

NextLoop == \/ screen = "upload" /\ \E file \in Files : Upload(file)
            \/ \E reponse \in LABEL_CHOICES : Save(reponse)

SpecLoop == InitLoop /\ [][NextLoop]_vars

(***************************************************************************)
(* Vocabulary of the properties of the locator.                            *)
(***************************************************************************)
\* m occurs in s at position i.
OccursAt(s, m, i) == i + Len(m) - 1 <= Len(s) /\ s[i] = m[1] /\ SubSeq(s, i, i + Len(m) - 1) = m

Positions(s, m) == {i \in 1..Len(s) : OccursAt(s, m, i)}

Count(s, m) == Cardinality(Positions(s, m))

HasMarker(text) == Count(text, MarkOpen) > 0 \/ Count(text, MarkClose) > 0

\* s without the first occurrence of m.
RemoveFirst(s, m) == IF Positions(s, m) = {} THEN s ELSE LET i == CHOOSE x \in Positions(s, m) : \A y \in Positions(s, m) : x <= y IN SubSeq(s, 1, i - 1) \o SubSeq(s, i + Len(m), Len(s))

\* Every line-break marker turned back into a newline.
RECURSIVE br2nl(_, _)
br2nl(s, i) == IF i > Len(s) THEN <<>> ELSE IF OccursAt(s, LineBreak, i) THEN <<"\n">> \o br2nl(s, i + Len(LineBreak)) ELSE <<s[i]>> \o br2nl(s, i + 1)

\* The output with the highlight marker removed and line breaks restored.
Restore(text) == br2nl(RemoveFirst(RemoveFirst(text, MarkOpen), MarkClose), 1)

\* The tokens the function works with, and the escaped document.
Tokens == re_findall_words(html_escape(strip(chunk)))

Escaped == html_escape(full)

\* Token tok stands at position i of e, up to letter case.
TokenAt(tok, e, i) == i + Len(tok) - 1 <= Len(e) /\ \A j \in 1..Len(tok) : Lower(e[i + j - 1]) = Lower(tok[j])

\* Number of consecutive non-word characters of e from position i.
RECURSIVE GapLen(_, _)
GapLen(e, i) == IF i <= Len(e) /\ ~IsWord(e[i]) THEN 1 + GapLen(e, i + 1) ELSE 0

\* The tokens toks[k..] stand consecutively from position i of e, separated by
\* non-empty runs of non-word characters: the position after the last one,
\* or 0 when they do not.
RECURSIVE SeqEnd(_, _, _, _)
SeqEnd(toks, k, e, i) == IF ~TokenAt(toks[k], e, i) THEN 0 ELSE LET j == i + Len(toks[k]) IN IF k = Len(toks) THEN j ELSE IF GapLen(e, j) = 0 THEN 0 ELSE SeqEnd(toks, k + 1, e, j + GapLen(e, j))

\* The positions of e where the token sequence occurs.
Occurrences(toks, e) == LET t == toks s == e IN IF t = <<>> THEN {} ELSE {i \in 1..Len(s) : SeqEnd(t, 1, s, i) # 0}

Min(S) == CHOOSE x \in S : \A y \in S : x <= y

Done == pc = "done"

\* C1: when the chunk has no word token, the output has no highlight marker
\* and is the escaped document with newlines turned into line breaks.
C1_DegenerateChunkUnmarked == (Done /\ Tokens = <<>>) => (~HasMarker(result.text) /\ result.text = nl2br(Escaped))

C4_ContentPreserved == [][pc' = "done" => (full' = full /\ chunk' = chunk /\ Restore(result'.text) = html_escape(full))]_vars

C4_Witness == Done /\ result.status = "match" /\ Tokens # <<>> /\ (\E i \in 1..Len(full) : full[i] = "\n") /\ Len(Escaped) > Len(full)

\* C6: when the chunk has a word token and its token sequence does not occur
\* in the escaped document, the output is exactly the escaped document with
\* newlines turned into line breaks, unmarked.
C6_NoMatchOutcome == Done => LET toks == Tokens e == Escaped IN (toks # <<>> /\ Occurrences(toks, e) = {}) => (result = Returned("nomatch", nl2br(e)) /\ ~HasMarker(result.text))

C6_Witness == Done /\ Len(Tokens) >= 2 /\ Occurrences(Tokens, Escaped) = {} /\ (\A k \in 1..Len(Tokens) : \E i \in 1..Len(Escaped) : TokenAt(Tokens[k], Escaped, i)) /\ (\E i \in 1..Len(full) : full[i] = "\n")

\* C7: the call never ends in an error: it returns a text, with the marker
\* (match found) or without it (no match).
OutputChars == WordChars \cup FullAlphabet \cup {"<", ">", "/", "=", "'", "-", ":", "#", ";", "&"}

C7_Total == Done => (/\ result.status \in {"match", "nomatch"}
                     /\ result.text \in Seq(OutputChars)
                     /\ result.status = "match" <=> Count(result.text, MarkOpen) = 1
                     /\ result.status = "nomatch" <=> ~HasMarker(result.text))

C7_Witness == Done /\ full = <<>> /\ chunk = <<".", " ", ".">> /\ result.status \in {"match", "nomatch"}

\* The tokens tok[k..] stand in the raw text from position i, letter for
\* letter, separated by non-empty runs of non-word characters.
ExactAt(tok, t, i) == i + Len(tok) - 1 <= Len(t) /\ SubSeq(t, i, i + Len(tok) - 1) = tok

RECURSIVE RawSeqEnd(_, _, _, _)
RawSeqEnd(toks, k, t, i) == IF ~ExactAt(toks[k], t, i) THEN 0 ELSE LET j == i + Len(toks[k]) IN IF k = Len(toks) THEN j ELSE IF GapLen(t, j) = 0 THEN 0 ELSE RawSeqEnd(toks, k + 1, t, j + GapLen(t, j))

\* C2: when the raw document contains the chunk's word tokens consecutively
\* and in order, separated by non-empty runs of non-word characters of any
\* kind, a match is found and highlighted.
C2_SeparatorTolerance == Done => LET toks == re_findall_words(chunk) IN (toks # <<>> /\ \E i \in 1..Len(full) : RawSeqEnd(toks, 1, full, i) # 0) => (result.status = "match" /\ Count(result.text, MarkOpen) = 1)

\* Lower case, every whitespace run collapsed to one space.
RECURSIVE Squeeze(_, _)
Squeeze(s, i) == IF i > Len(s) THEN <<>> ELSE IF s[i] \in Whitespace THEN (IF i > 1 /\ s[i - 1] \in Whitespace THEN <<>> ELSE <<" ">>) \o Squeeze(s, i + 1) ELSE <<Lower(s[i])>> \o Squeeze(s, i + 1)

Norm(s) == Squeeze(s, 1)

Substrings(s) == {SubSeq(s, i, j) : i \in 1..Len(s), j \in 1..Len(s)}

\* The trimmed chunk equals a substring of the document up to letter case and
\* up to the length and kind of its whitespace runs.
SameModuloCaseAndSpace == \E sub \in Substrings(full) : Norm(sub) = Norm(strip(chunk))

\* C5: a chunk with a word token that equals a substring of the document up
\* to letter case and whitespace is matched, and the output has exactly one
\* highlight marker.
C5_CaseAndSpaceRobust == Done => ((re_findall_words(chunk) # <<>> /\ SameModuloCaseAndSpace) => (result.status = "match" /\ Count(result.text, MarkOpen) = 1 /\ Count(result.text, MarkClose) = 1))

C5_Witness == Done /\ Len(re_findall_words(chunk)) >= 2 /\ SameModuloCaseAndSpace /\ strip(chunk) \notin Substrings(full) /\ (\E i \in 1..Len(full) : full[i] = "\n") /\ (\E i \in 1..Len(full) : full[i] = "A") /\ result.status = "match"

\* The span of the escaped document the marker wraps, as 0-based offsets.
MarkedStart == Len(br2nl(SubSeq(result.text, 1, Min(Positions(result.text, MarkOpen)) - 1), 1))

MarkedEnd == Len(br2nl(RemoveFirst(SubSeq(result.text, 1, Min(Positions(result.text, MarkClose)) - 1), MarkOpen), 1))

\* C8: a highlighted span starts at the first character and ends at the last
\* character of whole words of the escaped document.
C8_WholeWords == (Done /\ Tokens # <<>> /\ result.status = "match") => LET e == Escaped a == MarkedStart b == MarkedEnd IN (/\ a < b
                                                                                                                  /\ IsWord(e[a + 1]) /\ (a = 0 \/ ~IsWord(e[a]))
                                                                                                                  /\ IsWord(e[b]) /\ (b = Len(e) \/ ~IsWord(e[b + 1])))

(***************************************************************************)
(* Vocabulary of the properties of the annotation loop.                    *)
(***************************************************************************)
NPending(d) == Cardinality(Pending(d))

\* The pending row that follows row idx in spreadsheet order, wrapping
\* around to the first pending row.
CyclicNext(idx, P) == IF \E q \in P : q > idx THEN Min({q \in P : q > idx}) ELSE Min(P)

\* The row on display is a pending row at a valid position.
ShownRowPending == screen = "annotate" => (ptr >= 0 /\ ptr < NPending(df) /\ CurrentIdx \in Pending(df))

\* What a save with the radio on reponse does to the table.
SaveEffect(reponse) == LET idx == CurrentIdx IN
    /\ Len(df') = Len(df)
    /\ \A i \in 1..Len(df) : i # idx => df'[i] = df[i]
    /\ df'[idx].decision_id = df[idx].decision_id
    /\ IF reponse = "A revoir"
       THEN df'[idx].revoir = "Oui" /\ df'[idx].implicit = df[idx].implicit /\ idx \in Pending(df') /\ NPending(df') = NPending(df)
       ELSE df'[idx].implicit = reponse /\ df'[idx].revoir = "" /\ idx \notin Pending(df') /\ NPending(df') = NPending(df) - 1

\* C9: the row on display is a pending row at a valid position; a save
\* changes only that row's implicit and revoir cells, a definitive label
\* taking the row out of the pending set (count down by one), 'A revoir'
\* setting revoir and keeping it pending; the pending count never grows and
\* 'A revoir' is never written into the implicit column.
C9_SaveEffect == [][/\ ShownRowPending /\ ShownRowPending'
                    /\ \A reponse \in LABEL_CHOICES : Save(reponse) => SaveEffect(reponse)
                    /\ screen = "annotate" => (/\ (\E reponse \in LABEL_CHOICES : Save(reponse))
                                               /\ NPending(df') <= NPending(df)
                                               /\ \A i \in 1..Len(df) : df'[i].implicit = "A revoir" => df[i].implicit = "A revoir")]_vars

C9_Witness == screen = "annotate" /\ shown = <<1, 2, 3, 1>> /\ df[1] = [decision_id |-> 1, implicit |-> "", revoir |-> "Oui"] /\ df[2].implicit = "Je ne sais pas" /\ df[2].revoir = "" /\ df[3].revoir = "Oui"

\* Between the last two times the row now on display was brought up, every
\* row that is still pending was brought up.
RoundRobin == screen = "annotate" => LET n == Len(shown) IN \A i \in 1..(n - 1) : (shown[i] = shown[n] /\ \A k \in (i + 1)..(n - 1) : shown[k] # shown[n]) => Pending(df) \subseteq {shown[k] : k \in i..n}

\* The finished screen is on exactly when a table is loaded and no row is
\* pending, so never while a row is marked for review.
FinishedIffNonePending == (screen = "finished" <=> (screen \notin {"upload", "error"} /\ Pending(df) = {})) /\ (screen = "finished" => \A i \in 1..Len(df) : df[i].revoir # "Oui")

\* C10: after a save the row on display is the pending row that follows the
\* saved row in spreadsheet order, wrapping around (ptr kept for a definitive
\* label, advanced for 'A revoir'); every pending row is brought up again
\* before a row is brought up twice; the finished screen is on exactly when
\* no row is pending.
C10_SaveMovesOn == [][/\ FinishedIffNonePending' /\ RoundRobin'
                      /\ \A reponse \in LABEL_CHOICES : (Save(reponse) /\ screen' = "annotate") => LET p == IF reponse = "A revoir" THEN ptr + 1 ELSE ptr IN ptr' = IF p >= NPending(df') THEN 0 ELSE p
                      /\ screen = "annotate" => (/\ shown[Len(shown)] = CurrentIdx
                                                 /\ IF Pending(df') = {} THEN screen' = "finished" ELSE screen' = "annotate" /\ df_todo(df')[ptr' + 1] = CyclicNext(CurrentIdx, Pending(df')) /\ shown' = Append(shown, CyclicNext(CurrentIdx, Pending(df'))))]_vars

C10_Witness == screen = "annotate" /\ shown = <<1, 2, 3, 1, 3>> /\ df[2].implicit = "Non" /\ df[1].revoir = "Oui" /\ df[3].revoir = "Oui" /\ ptr = 1

====
